---- MODULE Spec2Model ----
(***************************************************************************)
(* Coffee yield prediction pipeline.                                       *)
(*                                                                         *)
(* Two notebooks are modelled:                                             *)
(*   - 09_yield_prediction_model (src/unnamed/part_001): load the master   *)
(*     table, split, impute, scale, cross-validate five model variants,    *)
(*     keep the best, pickle three artifacts, predict 2025, report         *)
(*     importances;                                                        *)
(*   - 05_vegetation_indices_calculation: load the woreda boundaries,      *)
(*     read the Sentinel-2 CSVs, map woreda names, average duplicates.     *)
(*                                                                         *)
(* Numbers are exact rationals <<n, d>> with d > 0; <<0, 0>> is NaN and    *)
(* <<1, 0>> is +inf, so that means, variances and float comparisons are    *)
(* computed as pandas / numpy compute them.                                *)
(***************************************************************************)
EXTENDS Integers, Sequences, FiniteSets, TLC

\* ------------------------------------------------------------------------
\* Bounds of the model
\* ------------------------------------------------------------------------
MaxRows == 3
MaxVal == 2
MaxUnits == 3
MaxRmse == 1
MaxPred == 1

\* ------------------------------------------------------------------------
\* Floating point values: rationals, NaN and +inf
\* ------------------------------------------------------------------------
NaN == <<0, 0>>
Inf == <<1, 0>>

IsNaN(x) == x = NaN

IsFinite(x) == x[2] # 0

Abs(i) == IF i < 0 THEN -i ELSE i

RECURSIVE Gcd(_, _)
Gcd(a, b) == IF b = 0 THEN a ELSE Gcd(b, a % b)

\* n / d in lowest terms, d # 0
Frac(n, d) ==
    LET g == Gcd(Abs(n), Abs(d))
        s == IF d < 0 THEN -1 ELSE 1
    IN  <<(s * n) \div g, (s * d) \div g>>

Num(i) == <<i, 1>>

FAdd(x, y) ==
    IF IsNaN(x) \/ IsNaN(y) THEN NaN
    ELSE IF ~IsFinite(x) \/ ~IsFinite(y) THEN Inf
    ELSE Frac(x[1] * y[2] + y[1] * x[2], x[2] * y[2])

FSub(x, y) ==
    IF IsNaN(x) \/ IsNaN(y) THEN NaN
    ELSE IF ~IsFinite(x) /\ ~IsFinite(y) THEN NaN
    ELSE IF ~IsFinite(x) THEN Inf
    ELSE Frac(x[1] * y[2] - y[1] * x[2], x[2] * y[2])

FMul(x, y) ==
    IF IsNaN(x) \/ IsNaN(y) THEN NaN
    ELSE IF ~IsFinite(x) \/ ~IsFinite(y) THEN Inf
    ELSE Frac(x[1] * y[1], x[2] * y[2])

\* x / k for a count k; 0 / 0 is NaN as in numpy
FDivCount(x, k) ==
    IF IsNaN(x) \/ k = 0 THEN NaN
    ELSE IF ~IsFinite(x) THEN Inf
    ELSE Frac(x[1], x[2] * k)

\* Python's a < b on floats: False whenever an operand is NaN
FLess(x, y) ==
    IF IsNaN(x) \/ IsNaN(y) THEN FALSE
    ELSE IF ~IsFinite(x) THEN FALSE
    ELSE IF ~IsFinite(y) THEN TRUE
    ELSE x[1] * y[2] < y[1] * x[2]

\* the clamp left out
Max0_Identity(x) == x

\* Python's max(0, x): x when x > 0, else 0 (a NaN x gives 0)
Max0(x) == IF FLess(Num(0), x) THEN x ELSE Num(0)

RECURSIVE SumSeq(_)
SumSeq(s) == IF s = <<>> THEN Num(0) ELSE FAdd(Head(s), SumSeq(Tail(s)))

NotNull(s) == SelectSeq(s, LAMBDA x: ~IsNaN(x))

\* pandas Series.mean(): NaN skipped, NaN when nothing is left
SeriesMean(s) == FDivCount(SumSeq(NotNull(s)), Len(NotNull(s)))

\* population variance with NaN skipped (numpy nanvar, ddof = 0)
SeriesVar(s) ==
    LET m == SeriesMean(s)
        d == [i \in 1..Len(NotNull(s)) |->
                FMul(FSub(NotNull(s)[i], m), FSub(NotNull(s)[i], m))]
    IN  FDivCount(SumSeq(d), Len(NotNull(s)))

Range(s) == {s[i] : i \in 1..Len(s)}

\* ------------------------------------------------------------------------
\* The master table
\* ------------------------------------------------------------------------
PredictionYear == 2025

PriorYear == PredictionYear - 1

target_col == "annual_yield_quintals_ha"

IdCols == {"woreda_id", "woreda_name", "year", "annual_yield_quintals_ha"}

\* header of master_woreda_data.csv: identifiers, features, target
MasterColumns ==
    <<"woreda_id", "woreda_name", "year", "avg_ndvi", "avg_savi",
      "annual_yield_quintals_ha">>

\* feature_cols = [col for col in df_train.columns if col not in [...]]
FeatureColsOf(columns) == SelectSeq(columns, LAMBDA c: c \notin IdCols)

Column(rows, c) == [i \in 1..Len(rows) |-> rows[i][c]]

\* the split done wrong: every master row is used for fitting
DropNaYield_AllRows(rows) == rows

\* df_master.dropna(subset=['annual_yield_quintals_ha'])
DropNaYield(rows) == SelectSeq(rows, LAMBDA r: ~IsNaN(r[target_col]))

\* the prediction rows taken as the prediction-year rows that lack a yield
YearIs2025_Unlabelled(rows) ==
    SelectSeq(rows, LAMBDA r: r["year"] = Num(PredictionYear) /\ IsNaN(r[target_col]))

\* df_master[df_master['year'] == 2025]
YearIs2025(rows) == SelectSeq(rows, LAMBDA r: r["year"] = Num(PredictionYear))

\* df[feature_cols]
Project(rows, cols) ==
    [i \in 1..Len(rows) |-> [c \in Range(cols) |-> rows[i][c]]]

\* X[col].fillna(mean_val)
FillNa(rows, c, v) ==
    [i \in 1..Len(rows) |->
        [rows[i] EXCEPT ![c] = IF IsNaN(@) THEN v ELSE @]]

HasNull(rows, c) == \E i \in 1..Len(rows) : IsNaN(rows[i][c])

AnyNull(rows, cols) == \E c \in Range(cols) : HasNull(rows, c)

\* The imputation loop over feature_cols: the pair of matrices and the mean
\* printed for every column that was imputed.
RECURSIVE ImputeLoop(_, _, _, _)
ImputeLoop(Xm, X25, cols, means) ==
    IF cols = <<>> THEN [X |-> Xm, X_2025 |-> X25, mean_val |-> means]
    ELSE LET col == Head(cols)
         IN  IF HasNull(Xm, col)
             THEN LET m == SeriesMean(Column(Xm, col))
                  IN  ImputeLoop(FillNa(Xm, col, m), FillNa(X25, col, m), Tail(cols),
                                 means @@ (col :> m))
             ELSE ImputeLoop(Xm, X25, Tail(cols), means)

\* StandardScaler().fit(X): per column mean_ and var_ (NaN disregarded);
\* scale_ is sqrt(var_), replaced by 1 when var_ is 0
ScalerFit(Xm, cols) ==
    [c \in Range(cols) |->
        [mean_ |-> SeriesMean(Column(Xm, c)), var_ |-> SeriesVar(Column(Xm, c))]]

\* scaler.transform: (x - mean_) / scale_.  The quotient by sqrt(var_) is not
\* a rational; the centred value is kept and the divisor stays in the scaler.
ScalerTransform(sc, rows, cols) ==
    [i \in 1..Len(rows) |-> [c \in Range(cols) |-> FSub(rows[i][c], sc[c].mean_)]]

\* Everything section 3 computes from a master table
Prepare(rows, columns) ==
    LET tr   == DropNaYield(rows)
        inf  == YearIs2025(rows)
        cols == FeatureColsOf(columns)
        imp  == ImputeLoop(Project(tr, cols), Project(inf, cols), cols, <<>>)
    IN  [df_train |-> tr, df_2025 |-> inf, feature_cols |-> cols,
         X |-> imp.X, X_2025 |-> imp.X_2025, mean_val |-> imp.mean_val,
         scaler |-> ScalerFit(imp.X, cols)]

\* ------------------------------------------------------------------------
\* State of notebook 09 (yield prediction model)
\* ------------------------------------------------------------------------
VARIABLES
    pc,                 \* position in the notebook cell
    error,              \* the exception that ended the run, "" when none
    master_file,        \* master_woreda_data.csv: [exists, columns, rows]
    df_master,          \* [none, columns, rows]
    names,              \* names bound in locals()
    df_train, df_2025, feature_cols, X, X_2025,
    mean_val,           \* column -> imputation mean, for the imputed columns
    scaler,             \* column -> [mean_, var_]
    X_scaled_df, X_2025_scaled_df,
    vi,                 \* index of the variant the model loop is at
    results, df_results, best_rmse, best_model,
    store,              \* ../models/: artifact -> "absent", "partial" or the run that wrote it
    predictions_file,   \* sidama_coffee_yield_predictions_2025.csv, <<>> until written
    predictions_2025,   \* the raw output of predict, <<>> until made
    predictions_written,
    importance_report   \* what section 6 printed

trainVars ==
    <<pc, error, master_file, df_master, names, df_train, df_2025,
      feature_cols, X, X_2025, mean_val, scaler,
      X_scaled_df, X_2025_scaled_df, vi, results, df_results, best_rmse,
      best_model, store, predictions_file, predictions_2025,
      predictions_written, importance_report>>

\* ------------------------------------------------------------------------
\* State of notebook 05 (vegetation indices aggregation)
\* ------------------------------------------------------------------------
VARIABLES
    apc,                \* position in the notebook cell
    aerror,             \* the exception that ended the run, "" when none
    gpd_defined,        \* whether the name gpd is bound in the kernel
    geojson,            \* sidama_woredas.geojson: [exists, has_cols, units]
    bucket,             \* the files of the GCS export folder
    gdf_woredas,        \* [none, has_cols, units]
    anames,             \* names bound in the notebook's namespace
    woreda_name_map,    \* Woreda_ID (str) -> Woreda Name
    download_dir,       \* ../data/gee_exports/sentinel2/
    downloaded,         \* download_gcs_files was called
    fi,                 \* index of the file the loop is at
    all_vi_data, processed_count, error_count,
    df_monthly_vi,
    vi_csv,             \* woreda_monthly_vegetation_indices.csv
    vi_written

aggVars ==
    <<apc, aerror, gpd_defined, geojson, bucket, gdf_woredas, anames,
      woreda_name_map, download_dir, downloaded, fi, all_vi_data, processed_count,
      error_count, df_monthly_vi, vi_csv, vi_written>>

vars == <<trainVars, aggVars>>

\* ------------------------------------------------------------------------
\* Inputs
\* ------------------------------------------------------------------------
FeatVals(c) ==
    IF c = "avg_ndvi" THEN {NaN} \cup {Num(v) : v \in 1..MaxVal}
    ELSE {NaN, Num(1)}

YieldVals == {NaN, Num(1)}

Years == {PriorYear, PredictionYear}

MasterRow(i, yr, ndvi, savi, yld) ==
    [c \in Range(MasterColumns) |->
        CASE c = "woreda_id" -> Num(i)
          [] c = "woreda_name" -> Num(i)
          [] c = "year" -> Num(yr)
          [] c = "avg_ndvi" -> ndvi
          [] c = "avg_savi" -> savi
          [] OTHER -> yld]

\* the row kinds, numbered: year, yield, avg_ndvi, avg_savi
NumKinds == 2 * 2 * (MaxVal + 1) * 2

KindRow(i, k) ==
    LET savi == k % 2
        ndvi == (k \div 2) % (MaxVal + 1)
        yld  == (k \div (2 * (MaxVal + 1))) % 2
        yr   == k \div (4 * (MaxVal + 1))
    IN  MasterRow(i, IF yr = 0 THEN PriorYear ELSE PredictionYear,
                  IF ndvi = 0 THEN NaN ELSE Num(ndvi),
                  IF savi = 0 THEN NaN ELSE Num(1),
                  IF yld = 0 THEN NaN ELSE Num(1))

\* the non-increasing sequences of n numbers in 0..hi
RECURSIVE KindSeqs(_, _)
KindSeqs(n, hi) ==
    IF n = 0 THEN {<<>>}
    ELSE UNION {{<<k>> \o s : s \in KindSeqs(n - 1, k)} : k \in 0..hi}

\* the table whose rows are of these kinds
TableOf(ks) == [i \in 1..Len(ks) |-> KindRow(i, ks[i])]

NoTable == [none |-> TRUE, columns |-> <<>>, rows |-> <<>>]

ArtifactNames == {"model", "scaler", "feature_columns"}

InitLocals ==
    /\ pc = "load"
    /\ error = ""
    /\ df_master = NoTable
    /\ names = {}
    /\ df_train = <<>> /\ df_2025 = <<>> /\ feature_cols = <<>>
    /\ X = <<>> /\ X_2025 = <<>>
    /\ mean_val = <<>> /\ scaler = <<>>
    /\ X_scaled_df = <<>> /\ X_2025_scaled_df = <<>>
    /\ vi = 0
    /\ results = <<>> /\ df_results = <<>>
    /\ best_rmse = Inf
    /\ best_model = ""
    /\ predictions_file = <<>>
    /\ predictions_written = FALSE
    /\ predictions_2025 = <<>>
    /\ importance_report = ""

NoGdf == [none |-> TRUE, has_cols |-> FALSE, units |-> <<>>]

InitAggLocals ==
    /\ apc = "load_woredas"
    /\ aerror = ""
    /\ gdf_woredas = NoGdf
    /\ anames = {}
    /\ woreda_name_map = <<>>
    /\ download_dir = <<>>
    /\ downloaded = FALSE
    /\ fi = 0
    /\ all_vi_data = <<>>
    /\ processed_count = 0
    /\ error_count = 0
    /\ df_monthly_vi = <<>>
    /\ vi_csv = <<>>
    /\ vi_written = FALSE

\* notebook 05 is not run
AggIdle ==
    /\ InitAggLocals
    /\ gpd_defined = FALSE
    /\ geojson = [exists |-> FALSE, has_cols |-> FALSE, units |-> <<>>]
    /\ bucket = <<>>

\* Data preparation alone, on every table of 1..MaxRows rows, up to the order
\* of its rows
InitPrep ==
    /\ AggIdle
    /\ InitLocals
    /\ \E m \in 1..MaxRows : \E ks \in KindSeqs(m, NumKinds - 1) :
         master_file = [exists |-> TRUE, columns |-> MasterColumns,
                        rows |-> TableOf(ks)]
    /\ store = [a \in ArtifactNames |-> "absent"]

\* ------------------------------------------------------------------------
\* Section 2: load the master dataset
\* ------------------------------------------------------------------------
LoadMaster ==
    /\ pc = "load"
    /\ df_master' = IF master_file.exists
                    THEN [none |-> FALSE, columns |-> master_file.columns,
                          rows |-> master_file.rows]
                    ELSE NoTable
    /\ names' = names \cup {"df_master"}
    /\ pc' = "prepare"
    /\ UNCHANGED <<aggVars, error, master_file, df_train, df_2025, feature_cols,
                   X, X_2025, mean_val, scaler, X_scaled_df, X_2025_scaled_df, vi, results, df_results,
                   best_rmse, best_model, store, predictions_file,
                   predictions_2025,
                   predictions_written, importance_report>>

\* ------------------------------------------------------------------------
\* Section 3: data preparation
\* ------------------------------------------------------------------------
Split ==
    /\ pc = "prepare"
    /\ ~df_master.none
    /\ df_train' = DropNaYield(df_master.rows)
    /\ df_2025' = YearIs2025(df_master.rows)
    /\ feature_cols' = FeatureColsOf(df_master.columns)
    /\ X' = Project(df_train', feature_cols')
    /\ X_2025' = Project(df_2025', feature_cols')
    /\ names' = names \cup {"df_train", "df_2025", "feature_cols", "X", "X_2025"}
    /\ pc' = "impute"
    /\ UNCHANGED <<aggVars, error, master_file, df_master, mean_val, scaler,
                   X_scaled_df, X_2025_scaled_df, vi,
                   results, df_results, best_rmse, best_model, store,
                   predictions_file, predictions_2025,
                   predictions_written, importance_report>>

SkipPrepare ==
    /\ pc = "prepare"
    /\ df_master.none
    /\ pc' = "train"
    /\ UNCHANGED <<aggVars, error, master_file, df_master, names, df_train,
                   df_2025, feature_cols, X, X_2025, mean_val, scaler,
                   X_scaled_df, X_2025_scaled_df, vi,
                   results, df_results, best_rmse, best_model, store,
                   predictions_file, predictions_2025,
                   predictions_written, importance_report>>

Impute ==
    /\ pc = "impute"
    /\ LET imp == ImputeLoop(X, X_2025, feature_cols, <<>>)
       IN  /\ X' = imp.X
           /\ X_2025' = imp.X_2025
           /\ mean_val' = imp.mean_val
    /\ pc' = "scale"
    /\ UNCHANGED <<aggVars, error, master_file, df_master, names, df_train,
                   df_2025, feature_cols, scaler, X_scaled_df,
                   X_2025_scaled_df, vi, results, df_results, best_rmse,
                   best_model, store, predictions_file, predictions_2025,
                   predictions_written,
                   importance_report>>

\* The remaining-NaN check only prints a warning; scaling follows.
\* StandardScaler refuses a matrix with no rows (ValueError): fit_transform
\* on an empty X, transform on an empty X_2025.
Scale ==
    /\ pc = "scale"
    /\ IF Len(X) = 0
       THEN /\ pc' = "aborted"
            /\ error' = "ValueError"
            /\ UNCHANGED <<scaler, X_scaled_df, X_2025_scaled_df, names>>
       ELSE IF Len(X_2025) = 0
       THEN /\ scaler' = ScalerFit(X, feature_cols)
            /\ X_scaled_df' = ScalerTransform(scaler', X, feature_cols)
            /\ names' = names \cup {"scaler", "X_scaled"}
            /\ pc' = "aborted"
            /\ error' = "ValueError"
            /\ UNCHANGED X_2025_scaled_df
       ELSE /\ scaler' = ScalerFit(X, feature_cols)
            /\ X_scaled_df' = ScalerTransform(scaler', X, feature_cols)
            /\ X_2025_scaled_df' = ScalerTransform(scaler', X_2025, feature_cols)
            /\ names' = names \cup {"scaler", "X_scaled", "X_2025_scaled",
                                    "X_scaled_df", "X_2025_scaled_df"}
            /\ pc' = "train"
            /\ error' = error
    /\ UNCHANGED <<aggVars, master_file, df_master, df_train, df_2025,
                   feature_cols, X, X_2025, mean_val, vi, results,
                   df_results, best_rmse, best_model, store, predictions_file,
                   predictions_2025,
                   predictions_written, importance_report>>

\* ------------------------------------------------------------------------
\* Section 4: model training and cross-validation
\* ------------------------------------------------------------------------
n_splits == 5

\* the models dict, in insertion order
models == <<"Random Forest", "XGBoost", "Ridge", "Lasso", "Stacking">>

\* mean cross-validated RMSE of a variant: a non-negative number, or NaN when
\* some fold's fit failed (cross_val_score's error_score)
RmseVals == {NaN} \cup {Num(v) : v \in 0..MaxRmse}

StartTraining ==
    /\ pc = "train"
    /\ "X_scaled_df" \in names
    /\ results' = <<>>
    /\ best_rmse' = Inf
    /\ best_model' = ""
    /\ names' = names \cup {"models", "results", "best_rmse", "best_model"}
    /\ vi' = 1
    /\ pc' = "variant"
    /\ UNCHANGED <<aggVars, error, master_file, df_master, df_train, df_2025,
                   feature_cols, X, X_2025, mean_val, scaler, X_scaled_df, X_2025_scaled_df, df_results, store,
                   predictions_file, predictions_2025,
                   predictions_written, importance_report>>

SkipTraining ==
    /\ pc = "train"
    /\ "X_scaled_df" \notin names
    /\ pc' = "predict"
    /\ UNCHANGED <<aggVars, error, master_file, df_master, names, df_train,
                   df_2025, feature_cols, X, X_2025, mean_val, scaler,
                   X_scaled_df, X_2025_scaled_df, vi,
                   results, df_results, best_rmse, best_model, store,
                   predictions_file, predictions_2025,
                   predictions_written, importance_report>>

\* the comparison done wrong: <= lets a later variant take a tie
KeepBest_LastTie(avg_rmse, name, cur_rmse, cur_model) ==
    IF FLess(avg_rmse, cur_rmse) \/ (avg_rmse = cur_rmse /\ ~IsNaN(avg_rmse))
    THEN [best_rmse |-> avg_rmse, best_model |-> name]
    ELSE [best_rmse |-> cur_rmse, best_model |-> cur_model]

\* if avg_rmse < best_rmse: best_rmse, best_model = avg_rmse, {...}
KeepBest(avg_rmse, name, cur_rmse, cur_model) ==
    IF FLess(avg_rmse, cur_rmse)
    THEN [best_rmse |-> avg_rmse, best_model |-> name]
    ELSE [best_rmse |-> cur_rmse, best_model |-> cur_model]

\* KFold(n_splits=5) cannot split fewer than n_splits samples
CanSplit(Xm) == Len(Xm) >= n_splits

\* cross_val_score raises: the exception leaves the loop and ends the cell
VariantCvThrows ==
    /\ pc = "variant"
    /\ vi <= Len(models)
    /\ pc' = "aborted"
    /\ error' = "ValueError"
    /\ UNCHANGED <<aggVars, master_file, df_master, names, df_train, df_2025,
                   feature_cols, X, X_2025, mean_val, scaler, X_scaled_df, X_2025_scaled_df, vi, results,
                   df_results, best_rmse, best_model, store, predictions_file,
                   predictions_2025,
                   predictions_written, importance_report>>

\* the variant is scored, then model.fit on the full training data raises
VariantFitThrows ==
    /\ pc = "variant"
    /\ vi <= Len(models)
    /\ CanSplit(X_scaled_df)
    /\ \E avg_rmse \in RmseVals :
         results' = Append(results, [Model |-> models[vi], AvgRMSE |-> avg_rmse])
    /\ pc' = "aborted"
    /\ error' = "ValueError"
    /\ UNCHANGED <<aggVars, master_file, df_master, names, df_train, df_2025,
                   feature_cols, X, X_2025, mean_val, scaler, X_scaled_df, X_2025_scaled_df, vi, df_results,
                   best_rmse, best_model, store, predictions_file,
                   predictions_2025,
                   predictions_written, importance_report>>

\* one pass of the loop body: score, record, refit, compare
TrainVariant ==
    /\ pc = "variant"
    /\ vi <= Len(models)
    /\ CanSplit(X_scaled_df)
    /\ \E avg_rmse \in RmseVals :
         LET kept == KeepBest(avg_rmse, models[vi], best_rmse, best_model)
         IN  /\ results' = Append(results, [Model |-> models[vi], AvgRMSE |-> avg_rmse])
             /\ best_rmse' = kept.best_rmse
             /\ best_model' = kept.best_model
    /\ vi' = vi + 1
    /\ UNCHANGED <<aggVars, pc, error, master_file, df_master, names, df_train,
                   df_2025, feature_cols, X, X_2025, mean_val, scaler,
                   X_scaled_df, X_2025_scaled_df,
                   df_results, store, predictions_file, predictions_2025,
                   predictions_written,
                   importance_report>>

\* sort_values(by='Avg RMSE'): ascending, NaN last
SortsBefore(a, b) ==
    IF IsNaN(a.AvgRMSE) THEN FALSE
    ELSE IF IsNaN(b.AvgRMSE) THEN TRUE
    ELSE FLess(a.AvgRMSE, b.AvgRMSE)

RECURSIVE InsertSorted(_, _)
InsertSorted(s, r) ==
    IF s = <<>> THEN <<r>>
    ELSE IF SortsBefore(r, Head(s)) THEN <<r>> \o s
    ELSE <<Head(s)>> \o InsertSorted(Tail(s), r)

RECURSIVE SortByRmse(_)
SortByRmse(s) ==
    IF s = <<>> THEN <<>>
    ELSE InsertSorted(SortByRmse(SubSeq(s, 1, Len(s) - 1)), s[Len(s)])

\* after the loop: the ranked table, then best_model['Model'] is printed,
\* which raises TypeError when best_model is still None
Report ==
    /\ pc = "variant"
    /\ vi > Len(models)
    /\ df_results' = SortByRmse(results)
    /\ names' = names \cup {"df_results"}
    /\ IF best_model = ""
       THEN pc' = "aborted" /\ error' = "TypeError"
       ELSE pc' = "save_model" /\ error' = error
    /\ UNCHANGED <<aggVars, master_file, df_master, df_train, df_2025,
                   feature_cols, X, X_2025, mean_val, scaler, X_scaled_df, X_2025_scaled_df, vi, results,
                   best_rmse, best_model, store, predictions_file,
                   predictions_2025,
                   predictions_written, importance_report>>

\* ------------------------------------------------------------------------
\* Section 4, end: the three pickle files, written one after the other
\* ------------------------------------------------------------------------
SaveArtifact(at, artifact, next) ==
    /\ pc = at
    /\ store' = [store EXCEPT ![artifact] = "cur"]
    /\ pc' = next
    /\ UNCHANGED <<aggVars, error, master_file, df_master, names, df_train,
                   df_2025, feature_cols, X, X_2025, mean_val, scaler,
                   X_scaled_df, X_2025_scaled_df, vi,
                   results, df_results, best_rmse, best_model, predictions_file,
                   predictions_2025,
                   predictions_written, importance_report>>

SaveModel == SaveArtifact("save_model", "model", "save_scaler")

SaveScaler == SaveArtifact("save_scaler", "scaler", "save_cols")

SaveCols == SaveArtifact("save_cols", "feature_columns", "predict")

SavePcs == {"save_model", "save_scaler", "save_cols"}

WritingAt(at) ==
    CASE at = "save_model" -> "model"
      [] at = "save_scaler" -> "scaler"
      [] OTHER -> "feature_columns"

\* The process is interrupted while the artifacts are being written: before
\* the next file is opened, or after open(path, 'wb') truncated it and before
\* pickle.dump completed.
Interrupt ==
    /\ pc \in SavePcs
    /\ \E opened \in BOOLEAN :
         store' = IF opened THEN [store EXCEPT ![WritingAt(pc)] = "partial"]
                  ELSE store
    /\ pc' = "killed"
    /\ error' = "KeyboardInterrupt"
    /\ UNCHANGED <<aggVars, master_file, df_master, names, df_train, df_2025,
                   feature_cols, X, X_2025, mean_val, scaler, X_scaled_df, X_2025_scaled_df, vi, results,
                   df_results, best_rmse, best_model, predictions_file,
                   predictions_2025,
                   predictions_written, importance_report>>

\* ------------------------------------------------------------------------
\* Section 5: 2025 prediction
\* ------------------------------------------------------------------------
RawPreds == {Num(v) : v \in (0 - MaxPred)..MaxPred}

\* df_2025[['woreda_id', 'woreda_name', 'year', 'predicted_yield_quintals_ha']]
\* after the clamp apply(lambda x: max(0, x))
PredictionTable(rows, raw) ==
    [i \in 1..Len(rows) |->
        [woreda_id |-> rows[i]["woreda_id"], woreda_name |-> rows[i]["woreda_name"],
         year |-> rows[i]["year"],
         predicted_yield_quintals_ha |-> Max0(raw[i])]]

\* the guard of section 5 left out
PredictGuard_Always == TRUE

PredictGuard ==
    /\ "best_model" \in names
    /\ best_model # ""
    /\ "X_2025_scaled_df" \in names

Predict ==
    /\ pc = "predict"
    /\ PredictGuard
    /\ \E raw \in [1..Len(df_2025) -> RawPreds] :
         /\ predictions_2025' = raw
         /\ predictions_file' = PredictionTable(df_2025, raw)
    /\ predictions_written' = TRUE
    /\ pc' = "importance"
    /\ UNCHANGED <<aggVars, error, master_file, df_master, names, df_train,
                   df_2025, feature_cols, X, X_2025, mean_val, scaler,
                   X_scaled_df, X_2025_scaled_df, vi,
                   results, df_results, best_rmse, best_model, store,
                   importance_report>>

\* best_model.predict raises (a linear model given NaN features)
PredictThrows ==
    /\ pc = "predict"
    /\ PredictGuard
    /\ AnyNull(X_2025, feature_cols)
    /\ pc' = "aborted"
    /\ error' = "ValueError"
    /\ UNCHANGED <<aggVars, master_file, df_master, names, df_train, df_2025,
                   feature_cols, X, X_2025, mean_val, scaler, X_scaled_df, X_2025_scaled_df, vi, results,
                   df_results, best_rmse, best_model, store, predictions_file,
                   predictions_2025,
                   predictions_written, importance_report>>

SkipPrediction ==
    /\ pc = "predict"
    /\ ~PredictGuard
    /\ pc' = "importance"
    /\ UNCHANGED <<aggVars, error, master_file, df_master, names, df_train,
                   df_2025, feature_cols, X, X_2025, mean_val, scaler,
                   X_scaled_df, X_2025_scaled_df, vi,
                   results, df_results, best_rmse, best_model, store,
                   predictions_file, predictions_2025,
                   predictions_written, importance_report>>

\* ------------------------------------------------------------------------
\* Section 6: feature importance
\* ------------------------------------------------------------------------
ImportanceGuard ==
    /\ "best_model" \in names
    /\ best_model # ""
    /\ "feature_cols" \in names

ImportanceKind(name) ==
    IF name \in {"Random Forest", "XGBoost"} THEN "feature_importances_"
    ELSE IF name \in {"Ridge", "Lasso"} THEN "coef_"
    ELSE IF name = "Stacking" THEN "final_estimator_.coef_"
    ELSE "not available"

Importance ==
    /\ pc = "importance"
    /\ importance_report' =
         IF ImportanceGuard THEN ImportanceKind(best_model) ELSE "skipped"
    /\ pc' = "done"
    /\ UNCHANGED <<aggVars, error, master_file, df_master, names, df_train,
                   df_2025, feature_cols, X, X_2025, mean_val, scaler,
                   X_scaled_df, X_2025_scaled_df, vi,
                   results, df_results, best_rmse, best_model, store,
                   predictions_file, predictions_2025,
                   predictions_written>>

\* ------------------------------------------------------------------------
\* Master tables of the whole run: units x years, the yield known for the
\* past years (and, when labelPred, for 2025 too), at most one missing value
\* ------------------------------------------------------------------------
MaxYears == 3

NanPlaces == {"none", "train", "pred"}

GridRow(u, yr, labelPred, nanAt, first) ==
    MasterRow(u, yr,
              IF nanAt = "train" /\ first /\ yr # PredictionYear THEN NaN ELSE Num(u),
              IF nanAt = "pred" /\ first /\ yr = PredictionYear THEN NaN ELSE Num(1),
              IF yr # PredictionYear \/ labelPred THEN Num(1) ELSE NaN)

\* rows ordered by unit, then year
GridTable(nu, ny, labelPred, nanAt) ==
    [i \in 1..(nu * ny) |->
        LET u  == ((i - 1) \div ny) + 1
            yr == PredictionYear - ny + 1 + ((i - 1) % ny)
        IN  GridRow(u, yr, labelPred, nanAt, u = 1 /\ yr >= PredictionYear - 1)]

GridTables ==
    {GridTable(nu, ny, lp, na) :
        nu \in 1..MaxUnits, ny \in 1..MaxYears, lp \in BOOLEAN, na \in NanPlaces}

\* ../models/ before the run: empty, or the three files of an earlier run
StoresBefore ==
    {[a \in ArtifactNames |-> "absent"], [a \in ArtifactNames |-> "prev"]}

Init ==
    /\ AggIdle
    /\ InitLocals
    /\ \/ \E t \in GridTables :
            master_file = [exists |-> TRUE, columns |-> MasterColumns, rows |-> t]
       \/ master_file = [exists |-> FALSE, columns |-> <<>>, rows |-> <<>>]
    /\ store \in StoresBefore

Next ==
    \/ LoadMaster \/ Split \/ SkipPrepare \/ Impute \/ Scale
    \/ StartTraining \/ SkipTraining
    \/ VariantCvThrows \/ VariantFitThrows \/ TrainVariant \/ Report
    \/ SaveModel \/ SaveScaler \/ SaveCols \/ Interrupt
    \/ Predict \/ PredictThrows \/ SkipPrediction
    \/ Importance

Spec == Init /\ [][Next]_vars

\* Model selection alone, on tables with enough labelled rows to be split
InitSelect ==
    /\ AggIdle
    /\ InitLocals
    /\ \E lp \in BOOLEAN, na \in NanPlaces :
         master_file = [exists |-> TRUE, columns |-> MasterColumns,
                        rows |-> GridTable(MaxUnits, MaxYears, lp, na)]
    /\ store = [a \in ArtifactNames |-> "absent"]

NextSelect ==
    \/ LoadMaster \/ Split \/ Impute \/ Scale \/ StartTraining
    \/ VariantCvThrows \/ VariantFitThrows \/ TrainVariant \/ Report

SpecSelect == InitSelect /\ [][NextSelect]_vars

\* The whole run, on tables of few units over one year more than MaxYears,
\* the prediction year without yield
PredictUnits == 2

InitPredict ==
    /\ AggIdle
    /\ InitLocals
    /\ \/ \E nu \in 1..PredictUnits, na \in {"none", "pred"} :
            master_file = [exists |-> TRUE, columns |-> MasterColumns,
                           rows |-> GridTable(nu, MaxYears + 1, FALSE, na)]
       \/ master_file = [exists |-> FALSE, columns |-> <<>>, rows |-> <<>>]
    /\ store \in StoresBefore

SpecPredict == InitPredict /\ [][Next]_vars

NextPrep == LoadMaster \/ Split \/ Impute \/ Scale

SpecPrep == InitPrep /\ [][NextPrep]_vars

\* ========================================================================
\* Notebook 05: vegetation indices calculation and aggregation
\* ========================================================================
MaxFileRows == 2
MaxFiles == 2

Digits == <<"0", "1", "2", "3", "4", "5", "6", "7", "8", "9">>

\* astype(str) of an id column: 1 -> '1' for an integer column, 1.0 -> '1.0'
\* for a float column
IdStr(dtype, v) ==
    IF dtype = "float" THEN Digits[v + 1] \o ".0" ELSE Digits[v + 1]

\* the id strings in str order, as sort_values orders them
IdTokens == <<"1", "1.0", "2", "2.0", "9", "9.0">>

StrRank(tokens, x) == CHOOSE i \in 1..Len(tokens) : tokens[i] = x

NoName == "<NaN>"

NameTokens == <<"<NaN>", "Aleta Wendo", "Bensa">>

\* gdf_woredas.set_index('Woreda_ID')['Woreda Name'].to_dict(), the ids
\* already cast to str: the last unit of an id gives its name
NameMapOf(units) ==
    [id \in {IdStr(units[i].dtype, units[i].Woreda_ID) : i \in 1..Len(units)} |->
        LET last == CHOOSE i \in 1..Len(units) :
                       /\ IdStr(units[i].dtype, units[i].Woreda_ID) = id
                       /\ \A j \in (i + 1)..Len(units) :
                             IdStr(units[j].dtype, units[j].Woreda_ID) # id
        IN  units[last].name]

\* astype(int): NaN cannot be cast, a fraction is truncated
CanCastInt(x) == x[2] # 0

AsInt(x) == IF x[1] >= 0 THEN x[1] \div x[2] ELSE 0 - ((0 - x[1]) \div x[2])

\* filename.replace('sentinel2_', '').replace('.csv', '')
IdFromFilename(f) == f.stem

\* the try block with the column selection replaced by a reindex, which
\* fills an absent NDVI or SAVI column with NaN instead of raising
ReadFile_Reindex(f) ==
    LET hasId == "Woreda_ID" \in f.columns \/ "woreda_id" \in f.columns
        bad ==
            \/ ~f.readable
            \/ "year" \notin f.columns
            \/ "month" \notin f.columns
            \/ \E i \in 1..Len(f.rows) :
                  ~CanCastInt(f.rows[i].year) \/ ~CanCastInt(f.rows[i].month)
    IN  IF bad THEN [ok |-> FALSE, rows |-> <<>>]
        ELSE [ok |-> TRUE,
              rows |-> [i \in 1..Len(f.rows) |->
                  [woreda_id |-> IF hasId THEN IdStr(f.id_dtype, f.rows[i].id)
                                 ELSE IdFromFilename(f),
                   year |-> AsInt(f.rows[i].year),
                   month |-> AsInt(f.rows[i].month),
                   avg_ndvi |-> IF "NDVI" \in f.columns THEN f.rows[i].NDVI ELSE NaN,
                   avg_savi |-> IF "SAVI" \in f.columns THEN f.rows[i].SAVI ELSE NaN]]]

\* the body of the try block for one file: [ok, rows]
ReadFile(f) ==
    LET hasId == "Woreda_ID" \in f.columns \/ "woreda_id" \in f.columns
        bad ==
            \/ ~f.readable
            \/ "year" \notin f.columns
            \/ "month" \notin f.columns
            \/ \E i \in 1..Len(f.rows) :
                  ~CanCastInt(f.rows[i].year) \/ ~CanCastInt(f.rows[i].month)
            \/ "NDVI" \notin f.columns
            \/ "SAVI" \notin f.columns
    IN  IF bad THEN [ok |-> FALSE, rows |-> <<>>]
        ELSE [ok |-> TRUE,
              rows |-> [i \in 1..Len(f.rows) |->
                  [woreda_id |-> IF hasId THEN IdStr(f.id_dtype, f.rows[i].id)
                                 ELSE IdFromFilename(f),
                   year |-> AsInt(f.rows[i].year),
                   month |-> AsInt(f.rows[i].month),
                   avg_ndvi |-> f.rows[i].NDVI,
                   avg_savi |-> f.rows[i].SAVI]]]

RECURSIVE Concat(_)
Concat(dfs) == IF dfs = <<>> THEN <<>> ELSE Head(dfs) \o Concat(Tail(dfs))

\* an unmapped id is given its own id as name
MapName_Fallback(map, id) == IF id \in DOMAIN map THEN map[id] ELSE id

\* Series.map(dict): NaN for an id that is no key
MapName(map, id) == IF id \in DOMAIN map THEN map[id] ELSE NoName

AddNames(rows, map) ==
    [i \in 1..Len(rows) |->
        [woreda_id |-> rows[i].woreda_id,
         woreda_name |-> MapName(map, rows[i].woreda_id),
         year |-> rows[i].year, month |-> rows[i].month,
         avg_ndvi |-> rows[i].avg_ndvi, avg_savi |-> rows[i].avg_savi]]

\* dropna(subset=['woreda_name'])
DropNaName(rows) == SelectSeq(rows, LAMBDA r: r.woreda_name # NoName)

GroupKey(r) == <<r.woreda_id, r.woreda_name, r.year, r.month>>

\* order of the group keys (woreda_id, woreda_name, year, month)
KeyLess(a, b) ==
    LET ia == StrRank(IdTokens, a[1])
        ib == StrRank(IdTokens, b[1])
        na == IF a[2] \in Range(NameTokens) THEN StrRank(NameTokens, a[2]) ELSE 0
        nb == IF b[2] \in Range(NameTokens) THEN StrRank(NameTokens, b[2]) ELSE 0
    IN  \/ ia < ib
        \/ ia = ib /\ na < nb
        \/ ia = ib /\ na = nb /\ a[3] < b[3]
        \/ ia = ib /\ na = nb /\ a[3] = b[3] /\ a[4] < b[4]

RECURSIVE SortedKeys(_)
SortedKeys(S) ==
    IF S = {} THEN <<>>
    ELSE LET k == CHOOSE x \in S : \A y \in S \ {x} : KeyLess(x, y)
         IN  <<k>> \o SortedKeys(S \ {k})

\* the duplicates are summed instead of averaged
GroupValue_Sum(cells) == SumSeq(NotNull(cells))

\* the aggregate of one group's column: mean()
GroupValue(cells) == SeriesMean(cells)

\* groupby([...]).mean().reset_index(): one row per key, keys in order,
\* rows with a NaN key dropped
GroupByMean(rows) ==
    LET live == SelectSeq(rows, LAMBDA r: r.woreda_name # NoName)
        ks   == SortedKeys({GroupKey(live[i]) : i \in 1..Len(live)})
    IN  [n \in 1..Len(ks) |->
            LET grp == SelectSeq(live, LAMBDA r: GroupKey(r) = ks[n])
            IN  [woreda_id |-> ks[n][1], woreda_name |-> ks[n][2],
                 year |-> ks[n][3], month |-> ks[n][4],
                 avg_ndvi |-> GroupValue([i \in 1..Len(grp) |-> grp[i].avg_ndvi]),
                 avg_savi |-> GroupValue([i \in 1..Len(grp) |-> grp[i].avg_savi])]]

\* sort_values(by=['woreda_id', 'year', 'month'])
SortsFirst(a, b) ==
    LET ia == StrRank(IdTokens, a.woreda_id)
        ib == StrRank(IdTokens, b.woreda_id)
    IN  \/ ia < ib
        \/ ia = ib /\ a.year < b.year
        \/ ia = ib /\ a.year = b.year /\ a.month < b.month

RECURSIVE InsertRow(_, _)
InsertRow(s, r) ==
    IF s = <<>> THEN <<r>>
    ELSE IF SortsFirst(r, Head(s)) THEN <<r>> \o s
    ELSE <<Head(s)>> \o InsertRow(Tail(s), r)

RECURSIVE SortValues(_)
SortValues(s) ==
    IF s = <<>> THEN <<>>
    ELSE InsertRow(SortValues(SubSeq(s, 1, Len(s) - 1)), s[Len(s)])

\* concat, map, dropna, groupby-mean, sort
AggregateRows(dfs, map) ==
    SortValues(GroupByMean(DropNaName(AddNames(Concat(dfs), map))))

\* ------------------------------------------------------------------------
\* Section 1: the woreda boundaries
\* ------------------------------------------------------------------------
LoadWoredas ==
    /\ apc = "load_woredas"
    /\ IF ~gpd_defined \/ ~geojson.exists
       THEN \* NameError or the read error is caught; gdf_woredas stays None
            UNCHANGED <<gdf_woredas, woreda_name_map, anames>>
       ELSE IF ~geojson.has_cols
       THEN \* ValueError is caught after gdf_woredas was assigned
            /\ gdf_woredas' = [none |-> FALSE, has_cols |-> FALSE,
                               units |-> geojson.units]
            /\ UNCHANGED <<woreda_name_map, anames>>
       ELSE /\ gdf_woredas' = [none |-> FALSE, has_cols |-> TRUE,
                               units |-> geojson.units]
            /\ woreda_name_map' = NameMapOf(geojson.units)
            /\ anames' = anames \cup {"woreda_name_map"}
    /\ apc' = "download"
    /\ UNCHANGED <<trainVars, aerror, gpd_defined, geojson, bucket, download_dir,
                   downloaded, fi, all_vi_data, processed_count, error_count,
                   df_monthly_vi, vi_csv, vi_written>>

\* ------------------------------------------------------------------------
\* Section 2: download the exports
\* ------------------------------------------------------------------------
Download ==
    /\ apc = "download"
    /\ ~gdf_woredas.none
    /\ download_dir' = bucket
    /\ downloaded' = TRUE
    /\ apc' = "process"
    /\ UNCHANGED <<trainVars, aerror, gpd_defined, geojson, bucket, gdf_woredas,
                   anames, woreda_name_map, fi, all_vi_data, processed_count,
                   error_count, df_monthly_vi, vi_csv, vi_written>>

SkipDownload ==
    /\ apc = "download"
    /\ gdf_woredas.none
    /\ apc' = "process"
    /\ UNCHANGED <<trainVars, aerror, gpd_defined, geojson, bucket, gdf_woredas,
                   anames, woreda_name_map, download_dir, downloaded, fi,
                   all_vi_data, processed_count, error_count, df_monthly_vi,
                   vi_csv, vi_written>>

\* ------------------------------------------------------------------------
\* Section 3: process the CSVs and aggregate
\* ------------------------------------------------------------------------
StartProcessing ==
    /\ apc = "process"
    /\ ~gdf_woredas.none
    /\ all_vi_data' = <<>>
    /\ processed_count' = 0
    /\ error_count' = 0
    /\ fi' = 1
    /\ apc' = "file_loop"
    /\ UNCHANGED <<trainVars, aerror, gpd_defined, geojson, bucket, gdf_woredas,
                   anames, woreda_name_map, download_dir, downloaded,
                   df_monthly_vi, vi_csv, vi_written>>

SkipProcessing ==
    /\ apc = "process"
    /\ gdf_woredas.none
    /\ apc' = "done"
    /\ UNCHANGED <<trainVars, aerror, gpd_defined, geojson, bucket, gdf_woredas,
                   anames, woreda_name_map, download_dir, downloaded, fi,
                   all_vi_data, processed_count, error_count, df_monthly_vi,
                   vi_csv, vi_written>>

\* one pass of the loop over os.listdir
ProcessFile ==
    /\ apc = "file_loop"
    /\ fi <= Len(download_dir)
    /\ LET f == download_dir[fi]
           r == ReadFile(f)
       IN  IF ~f.matches
           THEN UNCHANGED <<all_vi_data, processed_count, error_count>>
           ELSE IF r.ok
           THEN /\ all_vi_data' = Append(all_vi_data, r.rows)
                /\ processed_count' = processed_count + 1
                /\ error_count' = error_count
           ELSE /\ error_count' = error_count + 1
                /\ UNCHANGED <<all_vi_data, processed_count>>
    /\ fi' = fi + 1
    /\ UNCHANGED <<trainVars, apc, aerror, gpd_defined, geojson, bucket,
                   gdf_woredas, anames, woreda_name_map, download_dir,
                   downloaded, df_monthly_vi, vi_csv, vi_written>>

\* after the loop: aggregate and save, or report that nothing was processed;
\* woreda_name_map is read here and raises NameError when it was never bound
Aggregate ==
    /\ apc = "file_loop"
    /\ fi > Len(download_dir)
    /\ IF all_vi_data = <<>>
       THEN /\ apc' = "done"
            /\ UNCHANGED <<aerror, df_monthly_vi, vi_csv, vi_written>>
       ELSE IF "woreda_name_map" \notin anames
       THEN /\ apc' = "aborted"
            /\ aerror' = "NameError"
            /\ df_monthly_vi' = Concat(all_vi_data)
            /\ UNCHANGED <<vi_csv, vi_written>>
       ELSE /\ df_monthly_vi' = AggregateRows(all_vi_data, woreda_name_map)
            /\ vi_csv' = df_monthly_vi'
            /\ vi_written' = TRUE
            /\ apc' = "done"
            /\ aerror' = aerror
    /\ UNCHANGED <<trainVars, gpd_defined, geojson, bucket, gdf_woredas, anames,
                   woreda_name_map, download_dir, downloaded, fi, all_vi_data,
                   processed_count, error_count>>

\* ------------------------------------------------------------------------
\* Inputs of notebook 05
\* ------------------------------------------------------------------------
AllColumns == {"Woreda_ID", "year", "month", "NDVI", "SAVI"}

\* an observation: SAVI is taken twice the NDVI, so that the two columns
\* never hold the same value
ObsRow(id, m, ndvi) ==
    [id |-> id, year |-> Num(PriorYear), month |-> Num(m), NDVI |-> Num(ndvi),
     SAVI |-> Num(2 * ndvi)]

\* the observation rows of a file, numbered: id, month, NDVI
ObsIds == <<1, 9>>

NumObsKinds == 2 * 2 * MaxVal

ObsOfKind(k) ==
    ObsRow(ObsIds[(k \div (2 * MaxVal)) + 1], ((k \div MaxVal) % 2) + 1,
           (k % MaxVal) + 1)

\* the contents of a file of at most n rows, up to the order of the rows
ObsSeqs(n) ==
    UNION {{[i \in 1..m |-> ObsOfKind(ks[i])] : ks \in KindSeqs(m, NumObsKinds - 1)} :
           m \in 0..n}

CsvFile(stem, cols, dtype, rows) ==
    [matches |-> TRUE, stem |-> stem, readable |-> TRUE, columns |-> cols,
     id_dtype |-> dtype, rows |-> rows]

\* how a well-formed file carries the unit id
IdShapes ==
    {<<AllColumns, "int">>, <<AllColumns, "float">>,
     <<(AllColumns \ {"Woreda_ID"}) \cup {"woreda_id"}, "int">>,
     <<AllColumns \ {"Woreda_ID"}, "int">>}

\* files that differ in what is wrong with them, each with one row
OneRow == <<ObsRow(1, 1, 1)>>

FileKinds ==
    {CsvFile("1", AllColumns, "int", OneRow),
     CsvFile("2", AllColumns \ {"Woreda_ID"}, "int", OneRow),
     [CsvFile("1", AllColumns, "int", <<>>) EXCEPT !.readable = FALSE],
     [CsvFile("1", AllColumns, "int", OneRow) EXCEPT !.matches = FALSE],
     CsvFile("1", AllColumns \ {"year"}, "int", OneRow),
     CsvFile("1", AllColumns \ {"NDVI"}, "int", OneRow),
     CsvFile("1", AllColumns, "int", <<[ObsRow(1, 1, 1) EXCEPT !.month = NaN]>>)}

Woredas ==
    <<[Woreda_ID |-> 1, dtype |-> "int", name |-> "Aleta Wendo"],
      [Woreda_ID |-> 2, dtype |-> "int", name |-> "Bensa"]>>

GoodGeojson == [exists |-> TRUE, has_cols |-> TRUE, units |-> Woredas]

TrainIdle ==
    /\ InitLocals
    /\ master_file = [exists |-> FALSE, columns |-> <<>>, rows |-> <<>>]
    /\ store = [a \in ArtifactNames |-> "absent"]

InitAgg ==
    /\ TrainIdle
    /\ InitAggLocals
    /\ \/ \* the boundaries load; two well-formed files with any rows
          /\ gpd_defined = TRUE
          /\ geojson = GoodGeojson
          /\ \E sh \in IdShapes, r1 \in ObsSeqs(MaxFileRows),
                r2 \in ObsSeqs(1) \cup {<<ObsRow(2, 1, 1)>>} :
                bucket = <<CsvFile("1", sh[1], sh[2], r1),
                           CsvFile("2", (AllColumns \ {"Woreda_ID"}) \cup {"woreda_id"},
                                   "int", r2)>>
       \/ \* any boundary file; any files, good or bad
          /\ gpd_defined \in BOOLEAN
          /\ geojson \in {GoodGeojson, [GoodGeojson EXCEPT !.has_cols = FALSE],
                          [exists |-> FALSE, has_cols |-> FALSE, units |-> <<>>]}
          /\ \E n \in 0..MaxFiles : bucket \in [1..n -> FileKinds]

NextAgg ==
    \/ LoadWoredas \/ Download \/ SkipDownload
    \/ StartProcessing \/ SkipProcessing \/ ProcessFile \/ Aggregate

SpecAgg == InitAgg /\ [][NextAgg]_vars

\* ========================================================================
\* Properties
\* ========================================================================

\* the observed values of column c over the rows with a yield, as integers
RECURSIVE IntSum(_)
IntSum(s) == IF s = <<>> THEN 0 ELSE Head(s) + IntSum(Tail(s))

LabelledCells(c) ==
    LET rows == SelectSeq(master_file.rows,
                          LAMBDA r: r[target_col] # NaN /\ r[c] # NaN)
    IN  [i \in 1..Len(rows) |-> rows[i][c][1]]

LabelledCount == Len(SelectSeq(master_file.rows, LAMBDA r: r[target_col] # NaN))

LabelledHasNull(c) ==
    \E i \in 1..Len(master_file.rows) :
        master_file.rows[i][target_col] # NaN /\ master_file.rows[i][c] = NaN

\* m is the quotient S / k (NaN when k = 0)
IsQuotient(m, S, k) ==
    IF k = 0 THEN m = NaN ELSE m[2] > 0 /\ m[1] * k = m[2] * S

StatsFromLabelledRows ==
    \A c \in Range(FeatureColsOf(MasterColumns)) :
        LET cells == LabelledCells(c)
            S == IntSum(cells)
            Q == IntSum([i \in 1..Len(cells) |-> cells[i] * cells[i]])
            k == Len(cells)
        IN  /\ (c \in DOMAIN mean_val) = LabelledHasNull(c)
            /\ c \in DOMAIN mean_val => IsQuotient(mean_val[c], S, k)
            /\ pc = "train" =>
                 /\ IsQuotient(scaler[c].mean_, S, k)
                 /\ IsQuotient(scaler[c].var_, k * Q - S * S, k * LabelledCount)

\* the statistics section 3 computes from the table with these rows are
\* those of this run
SameStats(rows) ==
    /\ Prepare(rows, master_file.columns).mean_val = mean_val
    /\ pc = "train" => Prepare(rows, master_file.columns).scaler = scaler

\* the tables that differ from the master table in one feature value of
\* row i, a prediction-year row
PerturbedAt(i) ==
    UNION {{[master_file.rows EXCEPT ![i][c] = v] : v \in FeatVals(c)} :
            c \in Range(FeatureColsOf(MasterColumns))}

InferenceRows ==
    {i \in 1..Len(master_file.rows) :
        master_file.rows[i]["year"] = Num(PredictionYear)}

\* C1 as claimed: after imputation and scaling, a change of a feature value
\* in any prediction-year row leaves the imputation means and the scaler's
\* parameters as they were.
C1_AnyInferenceRowChange ==
    pc \in {"scale", "train"} =>
        \A i \in InferenceRows : \A t \in PerturbedAt(i) : SameStats(t)

\* C1 as amended: the imputation means and the scaler's parameters are those
\* of the rows with a yield alone, and a change of a feature value in a
\* prediction-year row that has no yield leaves them as they were.
C1_NoLeakage ==
    pc \in {"scale", "train"} =>
        /\ StatsFromLabelledRows
        /\ \A i \in InferenceRows :
              master_file.rows[i][target_col] = NaN =>
                 \A t \in PerturbedAt(i) : SameStats(t)

\* a prediction-year row without yield beside labelled rows of which one
\* column was imputed and one has a variance
C1_Witness ==
    /\ pc = "train"
    /\ \E i \in InferenceRows : master_file.rows[i][target_col] = NaN
    /\ \E c \in DOMAIN mean_val : mean_val[c] # NaN
    /\ \E c \in DOMAIN scaler : scaler[c].var_ \notin {NaN, Num(0)}

\* C2: after the imputation step no feature column of the training or of the
\* inference population holds a missing value.
C2_NoMissingAfterImputation ==
    pc \in {"scale", "train"} =>
        /\ ~AnyNull(X, feature_cols)
        /\ ~AnyNull(X_2025, feature_cols)

PastScaling ==
    {"train", "variant", "save_model", "save_scaler", "save_cols", "predict",
     "importance", "done"}

\* C3: with a missing value left in a feature column after imputation, the
\* run does not get to scaling or to any later stage.
C3_MissingValuesAreFatal ==
    (AnyNull(X, feature_cols) \/ AnyNull(X_2025, feature_cols)) =>
        /\ pc \notin PastScaling
        /\ "X_scaled_df" \notin names

\* C4: after an interruption of the artifact writes, a model in the store
\* comes with the scaler and the feature-name list of the same run.
C4_ArtifactsAtomic ==
    (pc = "killed" /\ store["model"] \in {"prev", "cur"}) =>
        /\ store["scaler"] = store["model"]
        /\ store["feature_columns"] = store["model"]

\* C5: an error thrown while a variant is cross-validated or refitted does
\* not abort the run.
C5_VariantFailureDoesNotAbort ==
    ("results" \in names /\ vi <= Len(models)) => pc # "aborted"

\* the variants with a numeric mean RMSE
Scored == {i \in 1..Len(results) : results[i].AvgRMSE # NaN}

\* C6: once every variant of the catalog went through the loop, the winner is
\* the earliest declared variant among those of minimum mean RMSE, and there
\* is a winner as soon as one variant has a mean RMSE.
C6_SelectionRule ==
    (pc = "variant" /\ vi > Len(models)) \/ "df_results" \in names =>
        /\ Len(results) = Len(models)
        /\ Scored # {} => best_model # ""
        /\ best_model # "" =>
             \E i \in Scored :
                /\ best_model = models[i]
                /\ results[i].Model = models[i]
                /\ best_rmse = results[i].AvgRMSE
                /\ \A j \in Scored : results[j].AvgRMSE[1] >= results[i].AvgRMSE[1]
                /\ \A j \in Scored :
                      j < i => results[j].AvgRMSE[1] > results[i].AvgRMSE[1]

C6_Witness ==
    /\ pc = "save_model"
    /\ \E i, j \in Scored :
          /\ 1 < i /\ i < j
          /\ results[i].AvgRMSE = best_rmse
          /\ results[j].AvgRMSE = best_rmse
          /\ best_model = models[i]

\* C8: on 3 units x 2 years, fully populated, the yield known for the first
\* year only, the run ends with five rows of metrics, the three artifacts of
\* this run, and three predictions, none negative.
C8_EndToEnd ==
    (master_file.exists
       /\ master_file.rows = GridTable(3, 2, FALSE, "none")
       /\ pc \in {"done", "aborted"}) =>
        /\ Len(df_results) = Len(models)
        /\ \A a \in ArtifactNames : store[a] = "cur"
        /\ predictions_written
        /\ Len(predictions_file) = 3
        /\ \A i \in 1..Len(predictions_file) :
              /\ predictions_file[i].year = Num(PredictionYear)
              /\ predictions_file[i].predicted_yield_quintals_ha[1] >= 0

\* the observation rows read from the files, before names are mapped
Obs == Concat(all_vi_data)

\* the ids of the reference boundary set, as strings
BoundaryIds ==
    {IdStr(geojson.units[i].dtype, geojson.units[i].Woreda_ID) :
        i \in 1..Len(geojson.units)}

SameCell(a, b) ==
    a.woreda_id = b.woreda_id /\ a.year = b.year /\ a.month = b.month

\* the rows of the written table that carry the key of r
OutRowsOf(r) == {i \in 1..Len(vi_csv) : SameCell(vi_csv[i], r)}

\* row i of the written table holds the arithmetic means of the rows sel
IsMeanOf(i, sel) ==
    /\ IsQuotient(vi_csv[i].avg_ndvi,
                  IntSum([n \in 1..Len(sel) |-> sel[n].avg_ndvi[1]]), Len(sel))
    /\ IsQuotient(vi_csv[i].avg_savi,
                  IntSum([n \in 1..Len(sel) |-> sel[n].avg_savi[1]]), Len(sel))

\* C9: the written table has one row for every (unit id, year, month) of a
\* mapped observation, holding the arithmetic mean of the observations of
\* that key, and no two of its rows share a key.
C9_DuplicatesAveraged ==
    vi_written =>
        /\ \A i, j \in 1..Len(vi_csv) : SameCell(vi_csv[i], vi_csv[j]) => i = j
        /\ \A n \in 1..Len(Obs) :
              Obs[n].woreda_id \in BoundaryIds =>
                 /\ Cardinality(OutRowsOf(Obs[n])) = 1
                 /\ \A i \in OutRowsOf(Obs[n]) :
                       IsMeanOf(i, SelectSeq(Obs, LAMBDA r: SameCell(r, Obs[n])))

\* three duplicates of one key, from two files, whose mean is no integer
C9_Witness ==
    /\ vi_written
    /\ Len(all_vi_data) = 2
    /\ \E i \in 1..Len(vi_csv) :
          /\ vi_csv[i].avg_ndvi[2] = 3
          /\ Len(SelectSeq(Obs, LAMBDA r: SameCell(r, vi_csv[i]))) = 3

\* C10: no row of the written table has an id outside the reference boundary
\* set; every observation with an id of the set is kept, under the one name
\* the set gives that id; and every written value is the mean of observations
\* whose id is in the set.
C10_UnmappableExcluded ==
    vi_written =>
        /\ \A i \in 1..Len(vi_csv) :
              /\ vi_csv[i].woreda_id \in BoundaryIds
              /\ \E u \in 1..Len(geojson.units) :
                    /\ IdStr(geojson.units[u].dtype, geojson.units[u].Woreda_ID)
                          = vi_csv[i].woreda_id
                    /\ geojson.units[u].name = vi_csv[i].woreda_name
              /\ LET sel == SelectSeq(Obs, LAMBDA r: /\ r.woreda_id \in BoundaryIds
                                                      /\ SameCell(r, vi_csv[i]))
                 IN  Len(sel) > 0 /\ IsMeanOf(i, sel)
        /\ \A n \in 1..Len(Obs) :
              IF Obs[n].woreda_id \in BoundaryIds
              THEN Cardinality({vi_csv[i].woreda_name : i \in OutRowsOf(Obs[n])}) = 1
              ELSE \A i \in 1..Len(vi_csv) : vi_csv[i].woreda_id # Obs[n].woreda_id

\* observations of both known units and of an unknown one, in one run
C10_Witness ==
    /\ vi_written
    /\ \E n \in 1..Len(Obs) : Obs[n].woreda_id \notin BoundaryIds
    /\ \E i, j \in 1..Len(vi_csv) : vi_csv[i].woreda_name # vi_csv[j].woreda_name


\* ------------------------------------------------------------------------
\* C11: skip and count
\* ------------------------------------------------------------------------
\* a file that cannot be read, or lacks the year, the month or a variable column
Malformed(f) ==
    \/ ~f.readable
    \/ ~({"year", "month", "NDVI", "SAVI"} \subseteq f.columns)

\* a file whose year or month cells are not whole numbers
Uncastable(f) ==
    /\ ~Malformed(f)
    /\ \E i \in 1..Len(f.rows) : f.rows[i].year = NaN \/ f.rows[i].month = NaN

\* the files the loop has passed
Passed == SubSeq(download_dir, 1, fi - 1)

MatchingPassed == SelectSeq(Passed, LAMBDA f : f.matches)

SkippedPassed ==
    SelectSeq(MatchingPassed, LAMBDA f : Malformed(f) \/ Uncastable(f))

ReadPassed ==
    SelectSeq(MatchingPassed, LAMBDA f : ~Malformed(f) /\ ~Uncastable(f))

\* C11: once the file loop has started, every matching file passed so far is
\* counted exactly once, as processed or as an error; an unreadable or malformed
\* file is counted as an error and adds no rows; the frames collected are those
\* of the files read without error, in order; and a run that leaves the loop
\* has passed every file.
C11_SkipAndCount ==
    fi >= 1 =>
        /\ processed_count + error_count = Len(MatchingPassed)
        /\ error_count = Len(SkippedPassed)
        /\ processed_count = Len(ReadPassed)
        /\ Len(all_vi_data) = Len(ReadPassed)
        /\ \A j \in 1..Len(all_vi_data) :
              /\ Len(all_vi_data[j]) = Len(ReadPassed[j].rows)
              /\ \A k \in 1..Len(all_vi_data[j]) :
                    /\ all_vi_data[j][k].avg_ndvi = ReadPassed[j].rows[k].NDVI
                    /\ all_vi_data[j][k].avg_savi = ReadPassed[j].rows[k].SAVI
        /\ apc \in {"done", "aborted"} => fi = Len(download_dir) + 1

\* a malformed file followed by a well-formed one, both counted
C11_Witness ==
    /\ apc = "done"
    /\ fi = 3
    /\ download_dir[1].matches /\ Malformed(download_dir[1])
    /\ download_dir[2].matches /\ ~Malformed(download_dir[2])
    /\ error_count = 1 /\ processed_count = 1
    /\ Len(all_vi_data) = 1

\* ------------------------------------------------------------------------
\* C12: non-negativity and shape of the prediction table
\* ------------------------------------------------------------------------
\* the prediction-year rows of the master table, in the table's order
InferencePopulation ==
    SelectSeq(master_file.rows, LAMBDA r : r["year"] = Num(PredictionYear))

\* C12: the prediction table written has one row for each prediction-year row
\* of the master table, in order and under its unit and year; a raw prediction
\* below zero is written as 0 and any other raw prediction as it is.
C12_ClampedOneRowEach ==
    predictions_written =>
        /\ Len(predictions_file) = Len(InferencePopulation)
        /\ Len(predictions_2025) = Len(InferencePopulation)
        /\ \A i \in 1..Len(predictions_file) :
              /\ predictions_file[i].woreda_id = InferencePopulation[i]["woreda_id"]
              /\ predictions_file[i].woreda_name = InferencePopulation[i]["woreda_name"]
              /\ predictions_file[i].year = Num(PredictionYear)
              /\ predictions_2025[i][1] < 0 =>
                    predictions_file[i].predicted_yield_quintals_ha = Num(0)
              /\ predictions_2025[i][1] >= 0 =>
                    predictions_file[i].predicted_yield_quintals_ha = predictions_2025[i]

\* a table written from a negative and a positive raw prediction
C12_Witness ==
    /\ predictions_written
    /\ \E i, j \in 1..Len(predictions_2025) :
          /\ predictions_2025[i][1] < 0
          /\ predictions_2025[j][1] > 0
          /\ predictions_file[i].predicted_yield_quintals_ha = Num(0)
          /\ predictions_file[j].predicted_yield_quintals_ha = predictions_2025[j]

\* ------------------------------------------------------------------------
\* C13: the split rule
\* ------------------------------------------------------------------------
\* row i of the master table is one of these rows
RowIn(i, rows) == \E j \in 1..Len(rows) : rows[j] = master_file.rows[i]

YieldPresent(i) == master_file.rows[i][target_col] # NaN

InPredictionYear(i) == master_file.rows[i]["year"] = Num(PredictionYear)

MasterRows == 1..Len(master_file.rows)

\* C13: after the split, a master row is a training row exactly when its yield
\* is present and a prediction row exactly when its year is the prediction
\* year, each taken once: a labelled prediction-year row is in both, an
\* unlabelled row of another year in neither.
C13_SplitRule ==
    "df_train" \in names =>
        /\ \A i \in MasterRows : RowIn(i, df_train) <=> YieldPresent(i)
        /\ \A i \in MasterRows : RowIn(i, df_2025) <=> InPredictionYear(i)
        /\ Len(df_train) = Cardinality({i \in MasterRows : YieldPresent(i)})
        /\ Len(df_2025) = Cardinality({i \in MasterRows : InPredictionYear(i)})
        /\ Len(X) = Len(df_train) /\ Len(X_2025) = Len(df_2025)

\* a table with a row in both populations and a row in neither
C13_Witness ==
    /\ "df_train" \in names
    /\ \E i, j \in MasterRows :
          /\ YieldPresent(i) /\ InPredictionYear(i)
          /\ RowIn(i, df_train) /\ RowIn(i, df_2025)
          /\ ~YieldPresent(j) /\ ~InPredictionYear(j)
          /\ ~RowIn(j, df_train) /\ ~RowIn(j, df_2025)

\* ------------------------------------------------------------------------
\* C14: a missing master table; the order of the stages
\* ------------------------------------------------------------------------
WorkPcs ==
    {"impute", "scale", "variant", "save_model", "save_scaler", "save_cols",
     "aborted", "killed"}

Written(a) == store[a] \in {"cur", "partial"}

\* C14: when the master file is absent, nothing past the loading stage does
\* any work: no split, imputation, scaling or training, no artifact written
\* or touched, no prediction table, no importance report. In every run an
\* artifact is written only once every variant was scored and a winner
\* reported, and predictions only with a winner and the three artifacts.
C14_StagesInOrder ==
    /\ (~master_file.exists /\ pc # "load") =>
          /\ df_master.none
          /\ names \subseteq {"df_master"}
          /\ pc \notin WorkPcs
          /\ df_train = <<>> /\ X = <<>> /\ X_2025 = <<>>
          /\ mean_val = <<>> /\ scaler = <<>> /\ X_scaled_df = <<>>
          /\ vi = 0 /\ results = <<>> /\ best_model = ""
          /\ store \in StoresBefore
          /\ ~predictions_written /\ predictions_file = <<>>
          /\ importance_report \in {"", "skipped"}
    /\ \A a \in ArtifactNames :
          Written(a) =>
             /\ vi > Len(models)
             /\ Len(results) = Len(models)
             /\ "df_results" \in names
             /\ best_model # ""
    /\ predictions_written =>
          /\ best_model # ""
          /\ \A a \in ArtifactNames : store[a] = "cur"

\* a run without the master file has ended, the earlier run's artifacts in
\* place
C14_Witness ==
    /\ ~master_file.exists
    /\ pc = "done"
    /\ importance_report = "skipped"
    /\ \A a \in ArtifactNames : store[a] = "prev"

\* ------------------------------------------------------------------------
\* C15: gating on the boundary table
\* ------------------------------------------------------------------------
\* C15: once the boundary load is over without the name map having been
\* built, nothing is downloaded, no file is processed and no output is
\* written; the file loop runs only with the name map built.
C15_GatedOnBoundaryLoad ==
    /\ (apc # "load_woredas" /\ "woreda_name_map" \notin anames) =>
          /\ ~downloaded
          /\ fi = 0
          /\ processed_count = 0 /\ error_count = 0
          /\ ~vi_written
          /\ apc \notin {"file_loop", "aborted"}
    /\ apc = "file_loop" => "woreda_name_map" \in anames

====
